---- MODULE Spec2Model ----
(***************************************************************************)
(* Ayna Brand Harvester (src/main.py): the image extractor, the two search *)
(* resolvers and the enrich_brand orchestrator, as state machines.         *)
(*                                                                         *)
(* Text is modelled as TLA+ strings, character by character: substring     *)
(* tests, lower-casing, stripping, URL splitting and joining are computed  *)
(* the way the Python code and its library calls compute them.             *)
(***************************************************************************)
EXTENDS Naturals, Sequences, FiniteSets, TLC

(***************************************************************************)
(* Python values                                                           *)
(***************************************************************************)
\* Python's None, kept apart from every text the model uses.
None == "<None>"

\* Truthiness of an Optional[str]: None and "" are falsy.
Truthy(v) == v /= None /\ v /= ""

(***************************************************************************)
(* Evaluation                                                              *)
(*                                                                         *)
(* An operator that uses an argument more than once first binds it         *)
(* (v \in {v0}) and hands back the one value computed (Val): the argument  *)
(* is then evaluated once, however often the body reads it.                *)
(***************************************************************************)
Val(S) == CHOOSE r \in S : TRUE

Min(S0) == Val({CHOOSE x \in S : \A y \in S : x <= y : S \in {S0}})

(***************************************************************************)
(* str methods                                                             *)
(***************************************************************************)
\* s[i:] and s[:i] with 1-based i
From(s0, i) == Val({SubSeq(s, i, Len(s)) : s \in {s0}})
Upto(s, i) == SubSeq(s, 1, i)
CharAt(s, i0) == Val({SubSeq(s, i, i) : i \in {i0}})
\* s[i-1:j]: a slice that may run past the end
Slice(s0, i, j0) ==
    Val({SubSeq(s, i, IF j > Len(s) THEN Len(s) ELSE j) : s \in {s0}, j \in {j0}})

\* the positions at which sub occurs in s
Occurrences(s0, sub0) ==
    Val({{i \in 1..(Len(s) + 1 - Len(sub)) : SubSeq(s, i, i + Len(sub) - 1) = sub}
         : s \in {s0}, sub \in {sub0}})

\* `sub in s`
Contains(s, sub) == Occurrences(s, sub) /= {}

\* s.find(sub) + 1 (0 when absent)
Find(s, sub) == Val({IF I = {} THEN 0 ELSE Min(I) : I \in {Occurrences(s, sub)}})

\* s.startswith(p)
StartsWith(s0, p0) ==
    \E s \in {s0}, p \in {p0} : Len(s) >= Len(p) /\ SubSeq(s, 1, Len(p)) = p

UpperAlpha == "ABCDEFGHIJKLMNOPQRSTUVWXYZ"
LowerAlpha == "abcdefghijklmnopqrstuvwxyz"

LowerChar(c) ==
    Val({IF i = 0 THEN c ELSE SubSeq(LowerAlpha, i, i) : i \in {Find(UpperAlpha, c)}})

\* s.lower()
RECURSIVE Lower(_)
Lower(s0) ==
    Val({IF Len(s) = 0 THEN ""
         ELSE IF Len(s) = 1 THEN LowerChar(s)
         ELSE Lower(SubSeq(s, 1, Len(s) \div 2))
              \o Lower(SubSeq(s, Len(s) \div 2 + 1, Len(s)))
         : s \in {s0}})

IsSpace(c) == c = " "

\* s.strip()
RECURSIVE LStrip(_)
LStrip(s0) ==
    Val({IF Len(s) > 0 /\ IsSpace(SubSeq(s, 1, 1)) THEN LStrip(SubSeq(s, 2, Len(s))) ELSE s
         : s \in {s0}})
RECURSIVE RStrip(_)
RStrip(s0) ==
    Val({IF Len(s) > 0 /\ IsSpace(SubSeq(s, Len(s), Len(s)))
         THEN RStrip(SubSeq(s, 1, Len(s) - 1)) ELSE s
         : s \in {s0}})
Strip(s) == RStrip(LStrip(s))

\* s.split(sep) for a one-character sep: a non-empty sequence of strings
RECURSIVE Split(_, _)
Split(s0, sep) ==
    Val({IF i = 0 THEN <<s>>
         ELSE <<SubSeq(s, 1, i - 1)>> \o Split(SubSeq(s, i + 1, Len(s)), sep)
         : <<s, i>> \in {<<s0, Find(s0, sep)>>}})

\* sep.join(parts)
RECURSIVE Join(_, _)
Join(parts0, sep) ==
    Val({IF Len(parts) = 0 THEN ""
         ELSE IF Len(parts) = 1 THEN parts[1]
         ELSE parts[1] \o sep \o Join(Tail(parts), sep)
         : parts \in {parts0}})

\* `x in list`
InList(x0, list0) == \E x \in {x0}, list \in {list0} : \E i \in 1..Len(list) : list[i] = x

\* any(tok in s for tok in toks)
ContainsAny(s0, toks) == \E s \in {s0} : \E i \in 1..Len(toks) : Contains(s, toks[i])

(***************************************************************************)
(* urllib.parse, as called at src/main.py:77                               *)
(* (inputs hold no ';' parameters, tabs or newlines)                       *)
(***************************************************************************)
SchemeChars == "abcdefghijklmnopqrstuvwxyzABCDEFGHIJKLMNOPQRSTUVWXYZ0123456789+-."
Letters == "abcdefghijklmnopqrstuvwxyzABCDEFGHIJKLMNOPQRSTUVWXYZ"
UsesRelative == {"", "ftp", "http", "https", "file", "sftp", "ws", "wss"}
UsesNetloc == {"", "ftp", "http", "https", "file", "sftp", "ws", "wss"}

\* first position of any of the characters of `chars` in s, or Len(s) + 1
FirstOf(s0, chars) ==
    Val({IF I = {} THEN Len(s) + 1 ELSE Min(I)
         : <<s, I>> \in {<<s0, {i \in 1..Len(s0) : Contains(chars, SubSeq(s0, i, i))}>>}})

\* the scheme prefix of url: the position of its colon, or 0
SchemeColon(url0) ==
    Val({IF /\ colon > 1
            /\ Contains(Letters, SubSeq(url, 1, 1))
            /\ \A k \in 1..(colon - 1) : Contains(SchemeChars, SubSeq(url, k, k))
         THEN colon ELSE 0
         : <<url, colon>> \in {<<url0, Find(url0, ":")>>}})

\* <<netloc, rest>> of the text after the scheme
SplitNetloc(rest0) ==
    Val({IF SubSeq(rest, 1, IF Len(rest) < 2 THEN Len(rest) ELSE 2) /= "//"
         THEN <<"", rest>>
         ELSE Val({<<SubSeq(rest, 3, 1 + netEnd), SubSeq(rest, 2 + netEnd, Len(rest))>>
                   : netEnd \in {FirstOf(SubSeq(rest, 3, Len(rest)), "/?#")}})
         : rest \in {rest0}})

\* s.split(sep, 1) as <<before, after>>, after = "" when sep is absent
Split1(s0, sep) ==
    Val({IF i = 0 THEN <<s, "">> ELSE <<SubSeq(s, 1, i - 1), SubSeq(s, i + 1, Len(s))>>
         : <<s, i>> \in {<<s0, Find(s0, sep)>>}})

\* urlsplit(url, scheme=default)
UrlSplit(url0, default) ==
    Val({Val({Val({Val({
            [scheme |-> IF colon = 0 THEN default ELSE Lower(SubSeq(url, 1, colon - 1)),
             netloc |-> net[1], path |-> qry[1], query |-> qry[2], fragment |-> frag[2]]
            : qry \in {Split1(frag[1], "?")}})
            : frag \in {Split1(net[2], "#")}})
            : net \in {SplitNetloc(SubSeq(url, colon + 1, Len(url)))}})
         : <<url, colon>> \in {<<url0, SchemeColon(url0)>>}})

\* urlunsplit(parts)
UrlUnsplit(p0) ==
    Val({Val({
        (IF p.scheme /= "" THEN p.scheme \o ":" ELSE "")
        \o (IF needNet
            THEN "//" \o p.netloc
                 \o (IF p.path /= "" /\ ~StartsWith(p.path, "/") THEN "/" ELSE "") \o p.path
            ELSE p.path)
        \o (IF p.query /= "" THEN "?" \o p.query ELSE "")
        \o (IF p.fragment /= "" THEN "#" \o p.fragment ELSE "")
        : needNet \in {p.netloc /= ""
                       \/ (p.scheme /= "" /\ p.scheme \in UsesNetloc
                           /\ ~StartsWith(p.path, "//"))}})
        : p \in {p0}})

\* segments[1:-1] = filter(None, segments[1:-1])
DropEmptyInner(segs0) ==
    Val({IF Len(segs) <= 2 THEN segs
         ELSE <<segs[1]>> \o SelectSeq(SubSeq(segs, 2, Len(segs) - 1), LAMBDA x : x /= "")
                          \o <<segs[Len(segs)]>>
         : segs \in {segs0}})

\* the loop of urljoin that removes "." and ".." segments
RECURSIVE ResolveDots(_, _)
ResolveDots(segs0, acc0) ==
    Val({IF Len(segs) = 0 THEN acc
         ELSE IF Head(segs) = ".."
         THEN ResolveDots(Tail(segs),
                          IF Len(acc) = 0 THEN acc ELSE SubSeq(acc, 1, Len(acc) - 1))
         ELSE IF Head(segs) = "." THEN ResolveDots(Tail(segs), acc)
         ELSE ResolveDots(Tail(segs), Append(acc, Head(segs)))
         : segs \in {segs0}, acc \in {acc0}})

\* bpath.split('/') without its last part unless that is empty
BaseParts(bpath) ==
    Val({IF bp[Len(bp)] /= "" THEN SubSeq(bp, 1, Len(bp) - 1) ELSE bp
         : bp \in {Split(bpath, "/")}})

\* the path urljoin resolves for a non-empty reference path
ResolvePath(bpath, path0) ==
    Val({Val({IF joined = "" THEN "/" ELSE joined
              : joined \in {Join(IF segments[Len(segments)] \in {".", ".."}
                                 THEN Append(ResolveDots(segments, <<>>), "")
                                 ELSE ResolveDots(segments, <<>>), "/")}})
         : segments \in {IF StartsWith(path0, "/") THEN Split(path0, "/")
                         ELSE DropEmptyInner(BaseParts(bpath) \o Split(path0, "/"))}})

\* urljoin(base, url)
UrlJoin(base0, url0) ==
    Val({IF base = "" THEN url
         ELSE IF url = "" THEN base
         ELSE Val({Val({
                IF u.scheme /= b.scheme \/ u.scheme \notin UsesRelative THEN url
                ELSE IF u.scheme \in UsesNetloc /\ u.netloc /= "" THEN UrlUnsplit(u)
                ELSE IF u.path = ""
                THEN UrlUnsplit([scheme |-> u.scheme, netloc |-> b.netloc, path |-> b.path,
                                 query |-> IF u.query = "" THEN b.query ELSE u.query,
                                 fragment |-> u.fragment])
                ELSE UrlUnsplit([scheme |-> u.scheme, netloc |-> b.netloc,
                                 path |-> ResolvePath(b.path, u.path),
                                 query |-> u.query, fragment |-> u.fragment])
                : u \in {UrlSplit(url, b.scheme)}})
              : b \in {UrlSplit(base, "")}})
         : base \in {base0}, url \in {url0}})

(***************************************************************************)
(* HTML documents                                                          *)
(*                                                                         *)
(* A document is the sequence of its elements in document order; an        *)
(* element has a tag, its attributes (name, value) in source order, and    *)
(* the text it encloses.  BeautifulSoup yields the elements; the raw text  *)
(* the regular expressions scan is the rendering of the same elements.     *)
(***************************************************************************)
Elem(tag, attrs, text) == [tag |-> tag, attrs |-> attrs, text |-> text]

\* tag.has_attr(name)
HasAttr(el, name) == \E i \in 1..Len(el.attrs) : el.attrs[i][1] = name

\* tag.get(name): the value, or None
Get(el, name) ==
    IF HasAttr(el, name)
    THEN el.attrs[Min({i \in 1..Len(el.attrs) : el.attrs[i][1] = name})][2]
    ELSE None

RECURSIVE RenderAttrs(_)
RenderAttrs(attrs) ==
    IF Len(attrs) = 0 THEN ""
    ELSE " " \o attrs[1][1] \o "=\"" \o attrs[1][2] \o "\"" \o RenderAttrs(Tail(attrs))

RenderElem(el) ==
    "<" \o el.tag \o RenderAttrs(el.attrs) \o ">" \o el.text \o "</" \o el.tag \o ">"

\* the raw html text of a document
RECURSIVE RawHtml(_)
RawHtml(doc) == IF Len(doc) = 0 THEN "" ELSE RenderElem(Head(doc)) \o RawHtml(Tail(doc))

\* soup.find_all(tag)
FindAll(doc, tag) == SelectSeq(doc, LAMBDA el : el.tag = tag)

(***************************************************************************)
(* extract_image_urls_from_html                                            *)
(***************************************************************************)
ImageExts == <<".jpg", ".jpeg", ".png", ".webp", ".avif">>
BadTokens == <<"sprite", "icon", "logo", "placeholder",
               "chevron", "arrow", "banner", "nav", "favicon">>
MyntraUiAssetPath == "constant.myntassets.com/web/assets/img"

\* the normalisation of add_url: strip, protocol-relative to https, urljoin
Normalize(url0, base_url) ==
    Val({UrlJoin(base_url, IF StartsWith(url1, "//") THEN "https:" \o url1 ELSE url1)
         : url1 \in {Strip(url0)}})

\* Accepts without the UI-junk token test
AcceptsNoJunkFilter(lower, base_url) ==
    /\ ContainsAny(lower, ImageExts)
    /\ ~(/\ (Contains(Lower(base_url), "myntra") \/ Contains(lower, "myntra"))
         /\ Contains(lower, MyntraUiAssetPath))

\* the acceptance filter of add_url on the normalised url and its lower-casing
Accepts(lower, base_url) ==
    /\ ContainsAny(lower, ImageExts)
    /\ ~ContainsAny(lower, BadTokens)
    /\ ~(/\ (Contains(Lower(base_url), "myntra") \/ Contains(lower, "myntra"))
         /\ Contains(lower, MyntraUiAssetPath))

\* add_url without the `url not in urls` test
add_url_no_dedup(urls0, url0, base_url) ==
    Val({IF url0 = "" THEN urls
         ELSE Val({IF Accepts(Lower(url), base_url) THEN Append(urls, url) ELSE urls
                   : url \in {Normalize(url0, base_url)}})
         : urls \in {urls0}})

\* add_url: the list after add_url(url)
add_url(urls0, url0, base_url) ==
    Val({IF url0 = "" THEN urls
         ELSE Val({IF Accepts(Lower(url), base_url) /\ ~InList(url, urls)
                   THEN Append(urls, url) ELSE urls
                   : url \in {Normalize(url0, base_url)}})
         : urls \in {urls0}})

\* add_url over a sequence of candidates, in order
RECURSIVE AddAll(_, _, _)
AddAll(urls0, cands0, base_url) ==
    Val({IF Len(cands) = 0 THEN urls
         ELSE AddAll(add_url(urls, Head(cands), base_url), Tail(cands), base_url)
         : urls \in {urls0}, cands \in {cands0}})

\* 1) meta tags: the content the loop hands to add_url for one <meta>
MetaProps == {"og:image", "twitter:image", "twitter:image:src"}
MetaCandidates(meta) ==
    Val({IF ~Truthy(prop) THEN <<>>
         ELSE IF Lower(prop) \in MetaProps /\ Truthy(Get(meta, "content"))
              THEN <<Get(meta, "content")>>
         ELSE <<>>
         : prop \in {IF Truthy(Get(meta, "property")) THEN Get(meta, "property")
                     ELSE Get(meta, "name")}})

\* 2) <img>: every present lazy-load attribute, in the fixed order
ImgAttrs == <<"src", "data-src", "data-original", "data-img", "data-lazy">>
ImgCandidates(img) ==
    Val({[i \in 1..Len(present) |-> Get(img, present[i])]
         : present \in {SelectSeq(ImgAttrs, LAMBDA a : HasAttr(img, a))}})

\* 3) <source srcset>: the URL token of every comma-separated item
SourceCandidates(source) ==
    IF ~Truthy(Get(source, "srcset")) THEN <<>>
    ELSE Val({[i \in 1..Len(items) |-> Split(Strip(items[i]), " ")[1]]
              : items \in {Split(Get(source, "srcset"), ",")}})

\* 4) re.search(r'url\(["\']?(.*?)["\']?\)', style): group 1, or None
Quotes == "\"'"
\* the positions of rest at which the lazy group may end
StyleUrlEnds(rest0) ==
    Val({{j \in 1..Len(rest) :
            \/ SubSeq(rest, j, j) = ")"
            \/ /\ Contains(Quotes, SubSeq(rest, j, j))
               /\ j < Len(rest) /\ SubSeq(rest, j + 1, j + 1) = ")"}
         : rest \in {rest0}})

StyleUrl(style0) ==
    Val({IF open = 0 THEN None
         ELSE Val({Val({IF Ends = {} THEN None ELSE SubSeq(rest, 1, Min(Ends) - 1)
                        : <<rest, Ends>> \in {<<rest1, StyleUrlEnds(rest1)>>}})
                   : rest1 \in {IF /\ Len(rest0) > 0
                                   /\ Contains(Quotes, SubSeq(rest0, 1, 1))
                                   /\ Contains(SubSeq(rest0, 2, Len(rest0)), ")")
                                THEN SubSeq(rest0, 2, Len(rest0)) ELSE rest0}})
         : <<open, rest0>> \in {<<Find(style0, "url("), From(style0, Find(style0, "url(") + 4)>>}})

StyleCandidates(el) ==
    IF ~HasAttr(el, "style") THEN <<>>
    ELSE Val({IF g = None THEN <<>> ELSE <<g>> : g \in {StyleUrl(Get(el, "style"))}})

\* 5) cdn_pattern.findall(html), case-insensitive, leftmost, non-overlapping
CdnPrefix == "https://assets.myntassets.com/"
CdnExcluded == " \"')"
CdnExts == <<"jpg", "jpeg", "png", "webp", "avif">>

\* the length of the extension the alternation matches after the "." at k, or 0
CdnExtLen(lower, k) ==
    Val({IF E = {} THEN 0 ELSE Len(CdnExts[Min(E)])
         : E \in {{e \in 1..Len(CdnExts) :
                     Slice(lower, k + 1, k + Len(CdnExts[e])) = CdnExts[e]}}})

\* the last position of the match that starts at i, or 0
CdnMatchEnd(html, lower, i) ==
    IF Slice(lower, i, i + Len(CdnPrefix) - 1) /= CdnPrefix THEN 0
    ELSE Val({Val({IF Dots = {} THEN 0 ELSE Min(Dots) + CdnExtLen(lower, Min(Dots))
                   : Dots \in {{k \in (p + 1)..(stop - 1) :
                                  SubSeq(lower, k, k) = "." /\ CdnExtLen(lower, k) > 0}}})
              : <<p, stop>> \in {<<i + Len(CdnPrefix),
                                   i + Len(CdnPrefix) - 1
                                     + FirstOf(From(html, i + Len(CdnPrefix)), CdnExcluded)>>}})

RECURSIVE CdnFindAll(_, _, _)
CdnFindAll(html, lower, pos) ==
    Val({IF Starts = {} THEN <<>>
         ELSE Val({<<SubSeq(html, i, e)>> \o CdnFindAll(html, lower, e + 1)
                   : <<i, e>> \in {<<Min(Starts), CdnMatchEnd(html, lower, Min(Starts))>>}})
         : Starts \in {{i \in pos..Len(html) : CdnMatchEnd(html, lower, i) > 0}}})

\* CdnCandidates that looks for "myntra" in the html only, not in base_url
CdnCandidatesHtmlOnly(doc, base_url) ==
    Val({IF Contains(lower_html, "myntra") THEN CdnFindAll(html, lower_html, 1) ELSE <<>>
         : <<html, lower_html>> \in {Val({<<h, Lower(h)>> : h \in {RawHtml(doc)}})}})

CdnCandidates(doc, base_url) ==
    Val({IF Contains(Lower(base_url), "myntra") \/ Contains(lower_html, "myntra")
         THEN CdnFindAll(html, lower_html, 1)
         ELSE <<>>
         : <<html, lower_html>> \in {Val({<<h, Lower(h)>> : h \in {RawHtml(doc)}})}})

\* the candidates of one scan over the elements, in document order
RECURSIVE MetaAll(_)
MetaAll(els) == IF Len(els) = 0 THEN <<>> ELSE MetaCandidates(Head(els)) \o MetaAll(Tail(els))
RECURSIVE ImgAll(_)
ImgAll(els) == IF Len(els) = 0 THEN <<>> ELSE ImgCandidates(Head(els)) \o ImgAll(Tail(els))
RECURSIVE SourceAll(_)
SourceAll(els) ==
    IF Len(els) = 0 THEN <<>> ELSE SourceCandidates(Head(els)) \o SourceAll(Tail(els))
RECURSIVE StyleAll(_)
StyleAll(els) == IF Len(els) = 0 THEN <<>> ELSE StyleCandidates(Head(els)) \o StyleAll(Tail(els))

\* the five scans, each as the list it leaves
MetaPhase(urls, doc, base_url) == AddAll(urls, MetaAll(FindAll(doc, "meta")), base_url)
ImgPhase(urls, doc, base_url) == AddAll(urls, ImgAll(FindAll(doc, "img")), base_url)
SourcePhase(urls, doc, base_url) == AddAll(urls, SourceAll(FindAll(doc, "source")), base_url)
StylePhase(urls, doc, base_url) == AddAll(urls, StyleAll(doc), base_url)
CdnPhase(urls, doc, base_url) == AddAll(urls, CdnCandidates(doc, base_url), base_url)

extract_image_urls_from_html(doc, base_url) ==
    CdnPhase(StylePhase(SourcePhase(ImgPhase(MetaPhase(<<>>, doc, base_url),
             doc, base_url), doc, base_url), doc, base_url), doc, base_url)

(***************************************************************************)
(* The search collaborator (Google Custom Search)                          *)
(*                                                                         *)
(* One query either fails (transport error, non-success status: ok is      *)
(* FALSE) or yields the "items" of the response.  An item holds link,      *)
(* title and snippet; a key the response leaves out reads as None.         *)
(***************************************************************************)
\* The two settings are non-empty texts; the code reads only whether they are empty,
\* so each is cut to its first six characters here.
GOOGLE_CSE_API_KEY == "AIzaSy"
GOOGLE_CSE_CX == "a2c879"

Item(link, title, snippet) == [link |-> link, title |-> title, snippet |-> snippet]
SearchFailed(err) == [ok |-> FALSE, err |-> err, items |-> <<>>]
SearchFound(items) == [ok |-> TRUE, err |-> "", items |-> items]

\* x or ""
OrEmpty(x) == IF Truthy(x) THEN x ELSE ""

(***************************************************************************)
(* search_marketplace_product_url                                          *)
(***************************************************************************)
marketplace_sites == <<"myntra.com", "ajio.com", "nykaafashion.com">>
product_tokens == <<"/buy", "/p/", "/dp/", "/product", "/products">>

\* q = f'"{company_name}" site:{site}'
MarketplaceQuery(company_name, s) == "\"" \o company_name \o "\" site:" \o s

\* the first item of the list whose link holds a product token, or 0
FirstProductItem(items) ==
    Val({IF I = {} THEN 0 ELSE Min(I)
         : I \in {{i \in 1..Len(items) :
                     ContainsAny(Lower(OrEmpty(items[i].link)), product_tokens)}}})

\* the body of the loop for one site: whether the function returns there, and what
SiteDecisionNoFallback(out) ==
    IF ~out.ok THEN [returns |-> FALSE, link |-> None]
    ELSE IF FirstProductItem(out.items) > 0
    THEN [returns |-> TRUE, link |-> out.items[FirstProductItem(out.items)].link]
    ELSE [returns |-> FALSE, link |-> None]

SiteDecision(out) ==
    IF ~out.ok THEN [returns |-> FALSE, link |-> None]
    ELSE IF FirstProductItem(out.items) > 0
    THEN [returns |-> TRUE, link |-> out.items[FirstProductItem(out.items)].link]
    ELSE IF Len(out.items) > 0
    THEN [returns |-> TRUE, link |-> out.items[1].link]
    ELSE [returns |-> FALSE, link |-> None]

\* the site the loop goes to after site number s
RetrySite(s) == s
NextSite(s) == s + 1

(***************************************************************************)
(* search_brand_website_url                                                *)
(***************************************************************************)
FASHION_KEYWORDS ==
    <<"clothing", "clothes", "apparel", "fashion", "wear", "streetwear",
      "garments", "tshirts", "t-shirt", "denim", "jeans", "kurta", "saree",
      "boutique", "label", "brand", "lookbook", "collection", "model", "studio">>

BAD_WEBSITE_HOSTS ==
    <<"myntra.com", "ajio.com", "nykaafashion.com", "instagram.com", "facebook.com",
      "linkedin.com", "x.com", "twitter.com", "pinterest.com", "amazon.in",
      "amazon.com", "flipkart.com">>

\* q = f'"{company_name}" (clothing OR ...)'
WebsiteQuery(company_name) ==
    "\"" \o company_name \o "\" (clothing OR apparel OR fashion OR wear OR streetwear OR label)"

\* any(bad in link for bad in BAD_WEBSITE_HOSTS) on the lower-cased link
OnBadHost(item) == ContainsAny(Lower(OrEmpty(item.link)), BAD_WEBSITE_HOSTS)

_looks_like_fashion_site(item) ==
    IF OnBadHost(item) THEN FALSE
    ELSE ContainsAny(Lower(OrEmpty(item.title)) \o " " \o Lower(OrEmpty(item.snippet)),
                     FASHION_KEYWORDS)

\* what search_brand_website_url returns for the outcome of its one query
ChooseWebsite(out) ==
    IF ~out.ok THEN None
    ELSE IF Len(out.items) = 0 THEN None
    ELSE Val({Val({IF Len(fashion_items) > 0 THEN fashion_items[1].link
                   ELSE IF Len(good) > 0 THEN good[1].link
                   ELSE items[1].link
                   : fashion_items \in {SelectSeq(items, _looks_like_fashion_site)},
                     good \in {SelectSeq(items, LAMBDA it : ~OnBadHost(it))}})
              : items \in {out.items}})

(***************************************************************************)
(* The page-fetch collaborator (requests.get + raise_for_status)           *)
(***************************************************************************)
FetchFailed(err) == [ok |-> FALSE, err |-> err, html |-> <<>>]
FetchOk(doc) == [ok |-> TRUE, err |-> "", html |-> doc]

(***************************************************************************)
(* EnrichBrandRequest / EnrichBrandResponse                                *)
(***************************************************************************)
\* pydantic's HttpUrl: an http or https URL with a host
IsHttpUrl(v) ==
    /\ v /= None
    /\ \E p \in {UrlSplit(v, "")} : p.scheme \in {"http", "https"} /\ p.netloc /= ""

OptionalHttpUrl(v) == v = None \/ IsHttpUrl(v)
HttpUrlList(l) == \A i \in 1..Len(l) : IsHttpUrl(l[i])

\* whether EnrichBrandResponse(**r) validates; it raises ValidationError otherwise
Validates(r) ==
    /\ OptionalHttpUrl(r.resolved_website_url)
    /\ OptionalHttpUrl(r.chosen_product_url)
    /\ OptionalHttpUrl(r.chosen_image_url)
    /\ HttpUrlList(r.candidate_image_urls)
    /\ OptionalHttpUrl(r.website_product_url)
    /\ OptionalHttpUrl(r.website_image_url)
    /\ HttpUrlList(r.website_candidate_image_urls)
    /\ OptionalHttpUrl(r.marketplace_product_url)
    /\ OptionalHttpUrl(r.marketplace_image_url)
    /\ HttpUrlList(r.marketplace_candidate_image_urls)

ValidationErrorText == "validation error for EnrichBrandResponse"

(***************************************************************************)
(* enrich_brand: the values it computes                                    *)
(***************************************************************************)
DummyImageUrl == "https://picsum.photos/800/1200"
DummyProductUrl == "https://example.com/dummy-product"

\* which CASE of enrich_brand a request takes
BranchWebsiteFirst(p) ==
    IF Truthy(p.website_url) THEN "website"
    ELSE IF Truthy(p.sku_url) THEN "sku"
    ELSE IF Truthy(p.company_name) THEN "company"
    ELSE "empty"

Branch(p) ==
    IF Truthy(p.sku_url) THEN "sku"
    ELSE IF Truthy(p.website_url) THEN "website"
    ELSE IF Truthy(p.company_name) /\ ~Truthy(p.website_url) /\ ~Truthy(p.sku_url)
    THEN "company"
    ELSE "empty"

\* CASE 1: the response with the dummy image
SkuDummyResponse(p, notes) ==
    [company_name |-> p.company_name,
     resolved_website_url |-> p.website_url,
     chosen_product_url |-> p.sku_url,
     chosen_image_url |-> DummyImageUrl,
     candidate_image_urls |-> <<DummyImageUrl>>,
     website_product_url |-> p.sku_url,
     website_image_url |-> DummyImageUrl,
     website_candidate_image_urls |-> <<DummyImageUrl>>,
     marketplace_product_url |-> None,
     marketplace_image_url |-> None,
     marketplace_candidate_image_urls |-> <<>>,
     notes |-> notes]

\* CASE 1: the response with the images found
SkuFoundResponse(p, image_urls) ==
    [company_name |-> p.company_name,
     resolved_website_url |-> p.website_url,
     chosen_product_url |-> p.sku_url,
     chosen_image_url |-> image_urls[1],
     candidate_image_urls |-> image_urls,
     website_product_url |-> p.sku_url,
     website_image_url |-> image_urls[1],
     website_candidate_image_urls |-> image_urls,
     marketplace_product_url |-> None,
     marketplace_image_url |-> None,
     marketplace_candidate_image_urls |-> <<>>,
     notes |-> "Found " \o ToString(Len(image_urls))
               \o " image(s) from sku_url. Using first candidate as hero."]

\* CASE 1 with an empty list returned when no image is found
SkuResponseEmptyList(p, fetched) ==
    IF ~fetched.ok
    THEN SkuDummyResponse(p, "Error fetching/parsing sku_url: " \o fetched.err)
    ELSE Val({IF Len(image_urls) = 0
              THEN [SkuDummyResponse(p, "No images found on sku_url; returned dummy image.")
                    EXCEPT !.candidate_image_urls = <<>>]
              ELSE IF Validates(SkuFoundResponse(p, image_urls))
              THEN SkuFoundResponse(p, image_urls)
              ELSE SkuDummyResponse(p, "Error fetching/parsing sku_url: "
                                       \o ValidationErrorText)
              : image_urls \in {extract_image_urls_from_html(fetched.html, p.sku_url)}})

\* CASE 1: the response for the outcome of the one fetch of sku_url
SkuResponse(p, fetched) ==
    IF ~fetched.ok
    THEN SkuDummyResponse(p, "Error fetching/parsing sku_url: " \o fetched.err)
    ELSE Val({IF Len(image_urls) = 0
              THEN SkuDummyResponse(p, "No images found on sku_url; returned dummy image.")
              ELSE IF Validates(SkuFoundResponse(p, image_urls))
              THEN SkuFoundResponse(p, image_urls)
              ELSE SkuDummyResponse(p, "Error fetching/parsing sku_url: "
                                       \o ValidationErrorText)
              : image_urls \in {extract_image_urls_from_html(fetched.html, p.sku_url)}})

\* scrape_website_url / the fetch of scrape_marketplace: <<hero_url, image_urls>>
Scrape(fetched, url) ==
    IF ~fetched.ok THEN <<None, <<>>>>
    ELSE Val({<<IF Len(image_urls) > 0 THEN image_urls[1] ELSE None, image_urls>>
              : image_urls \in {extract_image_urls_from_html(fetched.html, url)}})

\* "Decide a primary": <<primary_product_url, primary_image_url, primary_candidates>>;
\* site_url is the product URL of the website source, fallback the one of no source
ArbitrateWebsiteFirst(l, site_url, fallback) ==
    IF Truthy(l.website_hero_url)
    THEN <<site_url, l.website_hero_url, l.website_image_urls>>
    ELSE IF Truthy(l.marketplace_hero_url)
    THEN <<l.marketplace_product_url, l.marketplace_hero_url, l.marketplace_image_urls>>
    ELSE <<fallback, DummyImageUrl, <<DummyImageUrl>>>>

Arbitrate(l, site_url, fallback) ==
    IF Truthy(l.marketplace_hero_url)
    THEN <<l.marketplace_product_url, l.marketplace_hero_url, l.marketplace_image_urls>>
    ELSE IF Truthy(l.website_hero_url)
    THEN <<site_url, l.website_hero_url, l.website_image_urls>>
    ELSE <<fallback, DummyImageUrl, <<DummyImageUrl>>>>

MarketplaceNote(l) ==
    "Marketplace image OK from " \o l.marketplace_product_url \o " ("
    \o ToString(Len(l.marketplace_image_urls)) \o " candidates)."

\* CASE 2: " | ".join(notes_parts)
WebsiteBranchNotes(p, l) ==
    (IF Truthy(l.website_hero_url)
     THEN "Website image OK (" \o ToString(Len(l.website_image_urls)) \o " candidates)."
     ELSE "Website image missing or failed.")
    \o " | "
    \o (IF Truthy(l.marketplace_hero_url) THEN MarketplaceNote(l)
        ELSE IF Truthy(p.company_name) THEN "Marketplace image missing or failed."
        ELSE "Marketplace search skipped (no company_name).")

\* CASE 2: the arguments of EnrichBrandResponse
WebsiteBranchResponse(p, l) ==
    Val({[company_name |-> p.company_name,
          resolved_website_url |-> p.website_url,
          chosen_product_url |-> primary[1],
          chosen_image_url |-> primary[2],
          candidate_image_urls |-> primary[3],
          website_product_url |-> p.website_url,
          website_image_url |-> l.website_hero_url,
          website_candidate_image_urls |-> l.website_image_urls,
          marketplace_product_url |-> l.marketplace_product_url,
          marketplace_image_url |-> l.marketplace_hero_url,
          marketplace_candidate_image_urls |-> l.marketplace_image_urls,
          notes |-> WebsiteBranchNotes(p, l)]
         : primary \in {Arbitrate(l, p.website_url, p.website_url)}})

\* CASE 3: " | ".join(notes_parts)
CompanyBranchNotes(l) ==
    (IF Truthy(l.resolved_website_url)
     THEN IF Truthy(l.website_hero_url)
          THEN "Brand website resolved to " \o l.resolved_website_url \o " ("
               \o ToString(Len(l.website_image_urls)) \o " image candidates)."
          ELSE "Brand website resolved to " \o l.resolved_website_url
               \o " but no images found."
     ELSE "Brand website could not be resolved via CSE.")
    \o " | "
    \o (IF Truthy(l.marketplace_hero_url) THEN MarketplaceNote(l)
        ELSE "Marketplace image missing or failed.")

\* CASE 3: the arguments of EnrichBrandResponse
CompanyBranchResponse(p, l) ==
    Val({[company_name |-> p.company_name,
          resolved_website_url |-> l.resolved_website_url,
          chosen_product_url |-> primary[1],
          chosen_image_url |-> primary[2],
          candidate_image_urls |-> primary[3],
          website_product_url |-> l.resolved_website_url,
          website_image_url |-> l.website_hero_url,
          website_candidate_image_urls |-> l.website_image_urls,
          marketplace_product_url |-> l.marketplace_product_url,
          marketplace_image_url |-> l.marketplace_hero_url,
          marketplace_candidate_image_urls |-> l.marketplace_image_urls,
          notes |-> CompanyBranchNotes(l)]
         : primary \in {Arbitrate(l, l.resolved_website_url,
                                  IF Truthy(l.resolved_website_url)
                                  THEN l.resolved_website_url ELSE DummyProductUrl)}})

\* CASE 4 answered with the dummy response of CASE 1
EmptyResponseAsSku(p) ==
    SkuDummyResponse(p, "sku_url and website_url not provided; using dummy response for now.")

\* CASE 4: the dummy response
EmptyResponse(p) ==
    Val({[company_name |-> p.company_name,
          resolved_website_url |-> p.website_url,
          chosen_product_url |-> dummy_product_url,
          chosen_image_url |-> DummyImageUrl,
          candidate_image_urls |-> <<DummyImageUrl>>,
          website_product_url |-> dummy_product_url,
          website_image_url |-> DummyImageUrl,
          website_candidate_image_urls |-> <<DummyImageUrl>>,
          marketplace_product_url |-> None,
          marketplace_image_url |-> None,
          marketplace_candidate_image_urls |-> <<>>,
          notes |-> "sku_url and website_url not provided; using dummy response for now."]
         : dummy_product_url \in {IF Truthy(p.website_url) THEN p.website_url
                                  ELSE DummyProductUrl}})

(***************************************************************************)
(* State                                                                   *)
(***************************************************************************)
VARIABLES
    html,       \* extract_image_urls_from_html: the document being scanned
    base_url,   \* extract_image_urls_from_html: the URL it was fetched from
    urls,       \* extract_image_urls_from_html: the list accepted so far
    scan,       \* extract_image_urls_from_html: the scan about to run, or "done"
    payload,    \* enrich_brand: the request (company_name, website_url, sku_url)
    pc,         \* where the running function is
    branch,     \* enrich_brand: the CASE taken, "none" before it is chosen
    site,       \* search_marketplace_product_url: index of the site of the loop
    loc,        \* enrich_brand: its local variables
    queries,    \* every query sent to the search collaborator, in order
    fetches,    \* every page fetch attempted, in order
    response,   \* the EnrichBrandResponse returned
    raised      \* the exception that left enrich_brand, or None

vars == <<html, base_url, urls, scan, payload, pc, branch, site, loc,
          queries, fetches, response, raised>>

extractVars == <<html, base_url, urls, scan>>
enrichVars == <<payload, pc, branch, site, loc, queries, fetches, response, raised>>

NoResponse == [returned |-> FALSE]

InitialLocals ==
    [resolved_website_url |-> None,
     website_hero_url |-> None,
     website_image_urls |-> <<>>,
     marketplace_product_url |-> None,
     marketplace_hero_url |-> None,
     marketplace_image_urls |-> <<>>]

Request(company_name, website_url, sku_url) ==
    [company_name |-> company_name, website_url |-> website_url, sku_url |-> sku_url]

\* the extractor is not running on its own
ExtractIdle == html = <<>> /\ base_url = "" /\ urls = <<>> /\ scan = "idle"

\* no request is being handled
EnrichIdle ==
    /\ payload = Request(None, None, None)
    /\ pc = "idle" /\ branch = "none" /\ site = 1 /\ loc = InitialLocals
    /\ queries = <<>> /\ fetches = <<>> /\ response = NoResponse /\ raised = None

(***************************************************************************)
(* The extractor called on its own                                         *)
(***************************************************************************)
MaxElems == 2

ElemPool == {
    Elem("meta", <<<<"property", "og:image">>, <<"content", "/a.jpg">>>>, ""),
    Elem("img", <<<<"src", "a.jpg">>, <<"data-src", "//cdn.x.com/b.png">>>>, ""),
    Elem("img", <<<<"src", "/img/logo.png">>, <<"data-lazy", "  ">>>>, ""),
    Elem("source", <<<<"srcset", "c.webp 1x, /a.jpg 2x">>>>, ""),
    Elem("div", <<<<"style", "background:url('d.JPG')">>>>, ""),
    Elem("script", <<>>,
         "x='https://assets.myntassets.com/h/1.jpg';y='https://assets.myntassets.com/navy.png'"),
    Elem("img", <<<<"src", "ftp://x.com/e.jpg">>, <<"data-img", "https://myntra.com/x.gif">>>>, ""),
    Elem("img", <<<<"src", "https://constant.myntassets.com/web/assets/img/z.png">>>>, ""),
    Elem("script", <<>>, "HTTPS://assets.myntassets.com/U.AVIF") }

BaseUrls == {"https://www.myntra.com/p/1", "https://acme.com/shop/", "http://m.MYNTRA.com/k"}

RECURSIVE SeqsUpTo(_, _)
SeqsUpTo(S, n) ==
    IF n = 0 THEN {<<>>}
    ELSE Val({shorter \cup {Append(q, e) : q \in shorter, e \in S}
              : shorter \in {SeqsUpTo(S, n - 1)}})

InitExtract ==
    /\ html \in SeqsUpTo(ElemPool, MaxElems)
    /\ base_url \in BaseUrls
    /\ urls = <<>>
    /\ scan = "meta"
    /\ EnrichIdle

ScanMeta ==
    /\ scan = "meta"
    /\ urls' = MetaPhase(urls, html, base_url)
    /\ scan' = "img"
    /\ UNCHANGED <<html, base_url, enrichVars>>

ScanImg ==
    /\ scan = "img"
    /\ urls' = ImgPhase(urls, html, base_url)
    /\ scan' = "source"
    /\ UNCHANGED <<html, base_url, enrichVars>>

ScanSource ==
    /\ scan = "source"
    /\ urls' = SourcePhase(urls, html, base_url)
    /\ scan' = "style"
    /\ UNCHANGED <<html, base_url, enrichVars>>

ScanStyle ==
    /\ scan = "style"
    /\ urls' = StylePhase(urls, html, base_url)
    /\ scan' = "cdn"
    /\ UNCHANGED <<html, base_url, enrichVars>>

ScanCdn ==
    /\ scan = "cdn"
    /\ urls' = CdnPhase(urls, html, base_url)
    /\ scan' = "done"
    /\ UNCHANGED <<html, base_url, enrichVars>>

NextExtract == ScanMeta \/ ScanImg \/ ScanSource \/ ScanStyle \/ ScanCdn

SpecExtract == InitExtract /\ [][NextExtract]_vars

(***************************************************************************)
(* The search functions and enrich_brand, step by step: one step per call  *)
(* of a collaborator, with the code that follows it up to the next call    *)
(***************************************************************************)
CseConfigured == Truthy(GOOGLE_CSE_API_KEY) /\ Truthy(GOOGLE_CSE_CX)

\* search_brand_website_url(payload.company_name): its one query and its result
QueryWebsite(Outcomes) ==
    /\ pc = "web_query"
    /\ IF ~CseConfigured
       THEN /\ loc' = [loc EXCEPT !.resolved_website_url = None]
            /\ UNCHANGED queries
       ELSE \E out \in Outcomes :
              /\ queries' = Append(queries, [fn |-> "website", site |-> "",
                                             q |-> WebsiteQuery(payload.company_name),
                                             out |-> out])
              /\ loc' = [loc EXCEPT !.resolved_website_url = ChooseWebsite(out)]
    /\ pc' = "web_return"
    /\ UNCHANGED <<extractVars, payload, branch, site, fetches, response, raised>>

\* search_marketplace_product_url(payload.company_name): one turn of its loop
QueryMarketplace(Outcomes) ==
    /\ pc = "mkt_query"
    /\ IF ~CseConfigured
       THEN /\ loc' = [loc EXCEPT !.marketplace_product_url = None]
            /\ pc' = "mkt_return"
            /\ UNCHANGED <<queries, site>>
       ELSE \E out \in Outcomes :
              /\ queries' = Append(queries,
                                   [fn |-> "marketplace", site |-> marketplace_sites[site],
                                    q |-> MarketplaceQuery(payload.company_name,
                                                           marketplace_sites[site]),
                                    out |-> out])
              /\ IF SiteDecision(out).returns
                 THEN /\ loc' = [loc EXCEPT !.marketplace_product_url = SiteDecision(out).link]
                      /\ pc' = "mkt_return"
                      /\ UNCHANGED site
                 ELSE IF NextSite(site) > Len(marketplace_sites)
                 THEN /\ loc' = [loc EXCEPT !.marketplace_product_url = None]
                      /\ pc' = "mkt_return"
                      /\ UNCHANGED site
                 ELSE /\ site' = NextSite(site)
                      /\ UNCHANGED <<loc, pc>>
    /\ UNCHANGED <<extractVars, payload, branch, fetches, response, raised>>

\* what requests.get(url) + raise_for_status() can do
FetchErrors == {"ConnectTimeout", "404 Client Error"}

PagePool == {
    <<>>,
    <<Elem("img", <<<<"src", "/a.jpg">>, <<"data-src", "//cdn.x.com/b.png">>>>, "")>>,
    <<Elem("img", <<<<"src", "/img/logo.png">>>>, "")>>,
    <<Elem("img", <<<<"src", "ftp://x.com/e.jpg">>>>, "")>> }

FetchOutcomes(url) ==
    IF IsHttpUrl(url)
    THEN {FetchFailed(e) : e \in FetchErrors} \cup {FetchOk(d) : d \in PagePool}
    ELSE {FetchFailed("InvalidSchema")}

\* return EnrichBrandResponse(**r): the response, or the ValidationError
Return(r) ==
    /\ IF Validates(r)
       THEN /\ response' = r @@ [returned |-> TRUE]
            /\ raised' = None
       ELSE /\ response' = NoResponse
            /\ raised' = ValidationErrorText
    /\ pc' = "done"

\* the CASE of the request
Dispatch ==
    /\ pc = "start"
    /\ branch' = Branch(payload)
    /\ pc' = CASE Branch(payload) = "sku" -> "sku_fetch"
               [] Branch(payload) = "website" -> "site_fetch"
               [] Branch(payload) = "company" -> "web_query"
               [] OTHER -> "empty"
    /\ UNCHANGED <<extractVars, payload, site, loc, queries, fetches, response, raised>>

\* CASE 1
FetchSku ==
    /\ pc = "sku_fetch"
    /\ \E fetched \in FetchOutcomes(payload.sku_url) :
          /\ fetches' = Append(fetches, [source |-> "sku", url |-> payload.sku_url,
                                         out |-> fetched])
          /\ Return(SkuResponse(payload, fetched))
    /\ UNCHANGED <<extractVars, payload, branch, site, loc, queries>>

\* scrape_website_url(url), url being website_url (CASE 2) or the URL resolved (CASE 3)
ScrapeWebsite ==
    /\ \/ pc = "site_fetch"
       \/ pc = "web_return" /\ Truthy(loc.resolved_website_url)
    /\ \E url \in {IF pc = "site_fetch" THEN payload.website_url
                   ELSE loc.resolved_website_url} :
       \E fetched \in FetchOutcomes(url) :
          /\ fetches' = Append(fetches, [source |-> "website", url |-> url, out |-> fetched])
          /\ loc' = [loc EXCEPT !.website_hero_url = Scrape(fetched, url)[1],
                                !.website_image_urls = Scrape(fetched, url)[2]]
    /\ pc' = IF pc = "site_fetch" /\ ~Truthy(payload.company_name)
             THEN "respond" ELSE "mkt_query"
    /\ UNCHANGED <<extractVars, payload, branch, site, queries, response, raised>>

\* CASE 3 with the marketplace tried only when the website was resolved
WebsiteUnresolvedSkipsMarketplace ==
    /\ pc = "web_return"
    /\ ~Truthy(loc.resolved_website_url)
    /\ pc' = "respond"
    /\ UNCHANGED <<extractVars, payload, branch, site, loc, queries, fetches,
                   response, raised>>

\* CASE 3: `if resolved_website_url:` is false
WebsiteUnresolved ==
    /\ pc = "web_return"
    /\ ~Truthy(loc.resolved_website_url)
    /\ pc' = "mkt_query"
    /\ UNCHANGED <<extractVars, payload, branch, site, loc, queries, fetches,
                   response, raised>>

\* scrape_marketplace: `if not marketplace_product_url: return None, None, []`
MarketplaceNotFound ==
    /\ pc = "mkt_return"
    /\ ~Truthy(loc.marketplace_product_url)
    /\ loc' = [loc EXCEPT !.marketplace_product_url = None,
                          !.marketplace_hero_url = None,
                          !.marketplace_image_urls = <<>>]
    /\ pc' = "respond"
    /\ UNCHANGED <<extractVars, payload, branch, site, queries, fetches, response, raised>>

\* scrape_marketplace: the fetch of the product page
FetchMarketplace ==
    /\ pc = "mkt_return"
    /\ Truthy(loc.marketplace_product_url)
    /\ \E fetched \in FetchOutcomes(loc.marketplace_product_url) :
          /\ fetches' = Append(fetches, [source |-> "marketplace",
                                         url |-> loc.marketplace_product_url,
                                         out |-> fetched])
          /\ loc' = [loc EXCEPT
                       !.marketplace_hero_url = Scrape(fetched, loc.marketplace_product_url)[1],
                       !.marketplace_image_urls = Scrape(fetched, loc.marketplace_product_url)[2]]
    /\ pc' = "respond"
    /\ UNCHANGED <<extractVars, payload, branch, site, queries, response, raised>>

\* CASE 2 and CASE 3: decide a primary, build the notes, return the response
Respond ==
    /\ pc = "respond"
    /\ Return(IF branch = "website" THEN WebsiteBranchResponse(payload, loc)
              ELSE CompanyBranchResponse(payload, loc))
    /\ UNCHANGED <<extractVars, payload, branch, site, loc, queries, fetches>>

\* CASE 4
RespondEmpty ==
    /\ pc = "empty"
    /\ Return(EmptyResponse(payload))
    /\ UNCHANGED <<extractVars, payload, branch, site, loc, queries, fetches>>

(***************************************************************************)
(* enrich_brand                                                            *)
(***************************************************************************)
CompanyNames == {None, "", "Acme"}
WebsiteUrls == {None, "https://acme.com/"}
SkuUrls == {None, "https://shop.com/p/1"}

\* what a query can yield while a request is handled
EnrichSearchOutcomes == {
    SearchFailed("403 Client Error"),
    SearchFound(<<>>),
    SearchFound(<<Item("https://www.myntra.com/acme/p/1", "Acme clothing", "")>>),
    SearchFound(<<Item("https://acme.com/", "Acme", "Official store")>>),
    SearchFound(<<Item("acme.com/shop", "Acme", "fashion label")>>) }

Init ==
    /\ payload \in {Request(c, w, k) : c \in CompanyNames, w \in WebsiteUrls, k \in SkuUrls}
    /\ pc = "start" /\ branch = "none" /\ site = 1 /\ loc = InitialLocals
    /\ queries = <<>> /\ fetches = <<>> /\ response = NoResponse /\ raised = None
    /\ ExtractIdle

Next ==
    \/ Dispatch
    \/ FetchSku
    \/ ScrapeWebsite
    \/ QueryWebsite(EnrichSearchOutcomes)
    \/ WebsiteUnresolved
    \/ QueryMarketplace(EnrichSearchOutcomes)
    \/ MarketplaceNotFound
    \/ FetchMarketplace
    \/ Respond
    \/ RespondEmpty

Spec == Init /\ [][Next]_vars

(***************************************************************************)
(* The two search functions called on their own                            *)
(***************************************************************************)
MaxItems == 2

ItemPool == {
    Item("https://www.myntra.com/acme/shirt/buy", "Acme shirt", "Buy online"),
    Item("https://www.ajio.com/Acme/P/55", "Acme", ""),
    Item("https://www.instagram.com/acme", "Acme fashion", ""),
    Item("https://acme.com/", "Acme", "Official store"),
    Item("https://acme.in/", "Acme Clothing", None),
    Item("https://www.netflix.com/acme", "Acme", "A streetwear story"),
    Item("https://www.wix.com/acme", "Acme", "Home"),
    Item(None, None, "apparel") }

SearchOutcomes ==
    {SearchFailed("403 Client Error")}
    \cup {SearchFound(items) : items \in SeqsUpTo(ItemPool, MaxItems)}

InitSearch(start) ==
    /\ payload \in {Request(c, None, None) : c \in {"Acme", "H&M"}}
    /\ pc = start /\ branch = "none" /\ site = 1 /\ loc = InitialLocals
    /\ queries = <<>> /\ fetches = <<>> /\ response = NoResponse /\ raised = None
    /\ ExtractIdle

InitMarketplace == InitSearch("mkt_query")
NextMarketplace == QueryMarketplace(SearchOutcomes)
SpecMarketplace == InitMarketplace /\ [][NextMarketplace]_vars

InitWebsite == InitSearch("web_query")
NextWebsite == QueryWebsite(SearchOutcomes)
SpecWebsite == InitWebsite /\ [][NextWebsite]_vars

(***************************************************************************)
(* Properties of the extractor                                             *)
(***************************************************************************)
\* every text the five scans hand to add_url, in the order they hand it
AllCandidates(doc, base) ==
    MetaAll(FindAll(doc, "meta")) \o ImgAll(FindAll(doc, "img"))
    \o SourceAll(FindAll(doc, "source")) \o StyleAll(doc) \o CdnCandidates(doc, base)

\* the texts the DOM scans (1-4) hand to add_url
DomCandidates(doc) ==
    MetaAll(FindAll(doc, "meta")) \o ImgAll(FindAll(doc, "img"))
    \o SourceAll(FindAll(doc, "source")) \o StyleAll(doc)

\* u starts with a scheme: a letter, then letters, digits, "+", "-", ".", then ":"
IsAbsolute(u) ==
    \E c \in 2..Len(u) :
        /\ SubSeq(u, c, c) = ":"
        /\ Contains(Letters, SubSeq(u, 1, 1))
        /\ \A k \in 1..(c - 1) : Contains(SchemeChars, SubSeq(u, k, k))

\* C8: at every point of the extraction, and so in the list returned, no URL
\* occurs twice and every URL is absolute (it starts with a scheme).
C8_NoDuplicatesAllAbsolute ==
    /\ \A i, j \in 1..Len(urls) : urls[i] = urls[j] => i = j
    /\ \A i \in 1..Len(urls) : IsAbsolute(urls[i])

\* C8's case: the extraction is over, the scans offered the same URL twice and
\* offered a relative one, and both were kept once, made absolute.
C8_Witness ==
    /\ scan = "done"
    /\ \E i, j \in 1..Len(AllCandidates(html, base_url)) :
          /\ i < j
          /\ ~IsAbsolute(AllCandidates(html, base_url)[i])
          /\ Normalize(AllCandidates(html, base_url)[i], base_url)
               = Normalize(AllCandidates(html, base_url)[j], base_url)
          /\ InList(Normalize(AllCandidates(html, base_url)[i], base_url), urls)

\* C9: every URL of the list, whichever scan produced it, contains an accepted
\* image extension and none of the UI-junk tokens; the comparison is the code's,
\* on the lower-cased normalised URL.
C9_ExtensionAndNoJunk ==
    \A i \in 1..Len(urls) :
        /\ \E e \in {".jpg", ".jpeg", ".png", ".webp", ".avif"} : Contains(Lower(urls[i]), e)
        /\ \A t \in {"sprite", "icon", "logo", "placeholder", "chevron",
                     "arrow", "banner", "nav", "favicon"} : ~Contains(Lower(urls[i]), t)

\* C9's case: the extraction is over; a URL with a junk token and one with no image
\* extension were offered and are not in the list, and a URL was accepted.
C9_Witness ==
    /\ scan = "done"
    /\ Len(urls) > 0
    /\ \E i, j \in 1..Len(AllCandidates(html, base_url)) :
          /\ Contains(Lower(AllCandidates(html, base_url)[i]), "logo")
          /\ ~ContainsAny(Lower(AllCandidates(html, base_url)[j]), ImageExts)

\* the matches of the CDN pattern in the raw html
CdnMatches == CdnFindAll(RawHtml(html), Lower(RawHtml(html)), 1)

\* C10 as stated: with "myntra" in the base URL, every match of the CDN pattern in
\* the raw html is in the returned list.
C10_Original ==
    (scan = "done" /\ Contains(base_url, "myntra"))
        => \A k \in 1..Len(CdnMatches) : InList(CdnMatches[k], urls)

\* C10 amended: with "myntra" in the base URL (in any case), every match of the CDN
\* pattern in the raw html is in the returned list in its normalised form, unless
\* it contains a UI-junk token or the Myntra UI-asset path.
C10_CdnMatchIncludedUnlessFiltered ==
    (scan = "done" /\ Contains(Lower(base_url), "myntra"))
        => \A k \in 1..Len(CdnMatches) :
              \/ \E t \in {"sprite", "icon", "logo", "placeholder", "chevron",
                           "arrow", "banner", "nav", "favicon"} :
                    Contains(Lower(CdnMatches[k]), t)
              \/ Contains(Lower(CdnMatches[k]), "constant.myntassets.com/web/assets/img")
              \/ InList(Normalize(CdnMatches[k], base_url), urls)

\* C10's case: "myntra" in the base URL, a CDN URL that no DOM attribute holds is
\* matched in the raw html and is in the returned list.
C10_Witness ==
    /\ scan = "done"
    /\ Contains(base_url, "myntra")
    /\ \E k \in 1..Len(CdnMatches) :
          /\ ~InList(CdnMatches[k], DomCandidates(html))
          /\ InList(CdnMatches[k], urls)

(***************************************************************************)
(* Properties of enrich_brand                                              *)
(***************************************************************************)
IsSet(v) == v /= None /\ v /= ""
Returned == pc = "done" /\ response.returned
FetchesOf(source) == {i \in 1..Len(fetches) : fetches[i].source = source}
QueriesOf(fn, s) == {i \in 1..Len(queries) : queries[i].fn = fn /\ queries[i].site = s}

\* C1: enrich_brand never lets an exception propagate to its caller: whatever the
\* request and whatever the fetches, the queries and the extractions yield, it
\* ends by returning a complete EnrichBrandResponse.
C1_NoExceptionPropagates ==
    /\ raised = None
    /\ pc = "done" => response.returned

\* C2: the branch is chosen by priority sku_url > website_url > company_name > empty,
\* and when sku_url is set the request fetches only the sku_url page, sends no
\* search query, fetches no website or marketplace page, and returns a result whose
\* chosen_product_url is sku_url, with company_name and website_url echoed.
C2_SkuBranchExclusive ==
    /\ branch /= "none" =>
         branch = IF IsSet(payload.sku_url) THEN "sku"
                  ELSE IF IsSet(payload.website_url) THEN "website"
                  ELSE IF IsSet(payload.company_name) THEN "company"
                  ELSE "empty"
    /\ IsSet(payload.sku_url) =>
         /\ queries = <<>>
         /\ \A i \in 1..Len(fetches) :
               fetches[i].source = "sku" /\ fetches[i].url = payload.sku_url
         /\ raised = None
         /\ pc = "done" =>
              /\ Len(fetches) = 1
              /\ response.returned
              /\ response.chosen_product_url = payload.sku_url
              /\ response.company_name = payload.company_name
              /\ response.resolved_website_url = payload.website_url

\* a request with all three fields set has been answered
C2_Witness ==
    /\ Returned
    /\ IsSet(payload.sku_url) /\ IsSet(payload.website_url) /\ IsSet(payload.company_name)
    /\ Len(fetches) = 1

\* C3: in the website branch and the company-name branch, a result returned has its
\* chosen triple equal to the marketplace triple if a marketplace hero image was
\* found, else to the website triple if a website hero image was found, else to the
\* placeholder image and the one-element list holding it; when the marketplace
\* resolver gave no product URL and the website yields images, the chosen image is
\* the website's first image and the marketplace fields are none, none and empty.
C3_MarketplaceOverWebsiteOverPlaceholder ==
    Returned /\ branch \in {"website", "company"} =>
      /\ IF response.marketplace_image_url /= None
         THEN /\ response.chosen_image_url = response.marketplace_image_url
              /\ response.chosen_image_url = response.marketplace_candidate_image_urls[1]
              /\ response.chosen_product_url = response.marketplace_product_url
              /\ response.candidate_image_urls = response.marketplace_candidate_image_urls
         ELSE IF response.website_image_url /= None
         THEN /\ response.chosen_image_url = response.website_candidate_image_urls[1]
              /\ response.chosen_product_url = response.website_product_url
              /\ response.candidate_image_urls = response.website_candidate_image_urls
         ELSE /\ response.chosen_image_url = "https://picsum.photos/800/1200"
              /\ response.candidate_image_urls = <<"https://picsum.photos/800/1200">>
      /\ (response.marketplace_image_url /= None)
           = (Len(response.marketplace_candidate_image_urls) > 0)
      /\ (response.website_image_url /= None)
           = (Len(response.website_candidate_image_urls) > 0)
      /\ FetchesOf("marketplace") = {} =>
           /\ response.marketplace_product_url = None
           /\ response.marketplace_image_url = None
           /\ response.marketplace_candidate_image_urls = <<>>
           /\ Len(response.website_candidate_image_urls) > 0 =>
                response.chosen_image_url = response.website_candidate_image_urls[1]

\* website_url and company_name set, the website yields 2 images, the marketplace
\* resolver finds nothing
C3_Witness ==
    /\ Returned /\ branch = "website"
    /\ IsSet(payload.company_name)
    /\ Len(queries) = 3 /\ FetchesOf("marketplace") = {}
    /\ Len(response.website_candidate_image_urls) = 2
    /\ response.chosen_image_url = response.website_candidate_image_urls[1]

\* C4: in the SKU branch, if the fetch of sku_url fails or the extraction yields no
\* image, the result has the placeholder as chosen_image_url, the one-element list
\* holding it as candidate_image_urls, sku_url as chosen_product_url and a
\* non-empty note which mentions the error when the fetch failed; the extracted
\* list is returned, with its first element chosen, only when it has an image.
C4_SkuPlaceholderOnFailure ==
    pc = "done" /\ branch = "sku" =>
      \E fetched \in {fetches[1].out} :
      \E image_urls \in {IF fetched.ok
                         THEN extract_image_urls_from_html(fetched.html, payload.sku_url)
                         ELSE <<>>} :
        /\ response.returned
        /\ response.chosen_product_url = payload.sku_url
        /\ response.notes /= ""
        /\ Len(image_urls) = 0 =>
             /\ response.chosen_image_url = "https://picsum.photos/800/1200"
             /\ response.candidate_image_urls = <<"https://picsum.photos/800/1200">>
        /\ ~fetched.ok => Contains(response.notes, fetched.err)
        /\ \/ /\ response.chosen_image_url = "https://picsum.photos/800/1200"
              /\ response.candidate_image_urls = <<"https://picsum.photos/800/1200">>
           \/ /\ Len(image_urls) >= 1
              /\ response.candidate_image_urls = image_urls
              /\ response.chosen_image_url = image_urls[1]

\* the one fetch of sku_url has failed and the request has been answered
C4_Witness ==
    /\ Returned /\ branch = "sku"
    /\ ~fetches[1].out.ok
    /\ response.chosen_image_url = "https://picsum.photos/800/1200"

\* C7: no retry.  The SKU page, the website page and the marketplace product page
\* are each fetched at most once, the website search sends at most one query, the
\* marketplace search at most one query per domain, and the branch taken makes its
\* one attempt: nothing is fetched or queried again after it has failed.
C7_NoRetry ==
    /\ \A source \in {"sku", "website", "marketplace"} : Cardinality(FetchesOf(source)) <= 1
    /\ Cardinality(QueriesOf("website", "")) <= 1
    /\ \A s \in {"myntra.com", "ajio.com", "nykaafashion.com"} :
          Cardinality(QueriesOf("marketplace", s)) <= 1
    /\ \A i \in 1..Len(queries) :
          queries[i].fn = "website" \/ queries[i].site \in {"myntra.com", "ajio.com", "nykaafashion.com"}
    /\ pc = "done" =>
         /\ branch = "sku" => Cardinality(FetchesOf("sku")) = 1
         /\ branch = "website" => Cardinality(FetchesOf("website")) = 1
         /\ branch = "company" => Cardinality(QueriesOf("website", "")) = 1

\* every query of a company-name request has failed, and the request is answered
C7_Witness ==
    /\ pc = "done" /\ branch = "company"
    /\ Len(queries) = 4
    /\ \A i \in 1..Len(queries) : ~queries[i].out.ok
    /\ fetches = <<>>

(***************************************************************************)
(* Properties of the search functions                                      *)
(***************************************************************************)
HasProductToken(link) ==
    /\ IsSet(link)
    /\ \E tok \in {"/buy", "/p/", "/dp/", "/product", "/products"} : Contains(Lower(link), tok)

\* a query that succeeded with at least one result
HasResults(out) == out.ok /\ Len(out.items) >= 1

\* the first link with a product token, else the link of the first result
ProductOrFirst(items) ==
    IF \E i \in 1..Len(items) : HasProductToken(items[i].link)
    THEN items[Min({i \in 1..Len(items) : HasProductToken(items[i].link)})].link
    ELSE items[1].link

\* C5: search_marketplace_product_url queries myntra.com, ajio.com and
\* nykaafashion.com in that order; the first domain whose query succeeds with at
\* least one result decides: its first link holding a product token is returned,
\* else its first result, and no later domain is queried; a domain whose query
\* fails or returns nothing is skipped; none is returned if every domain does so.
C5_FirstDomainWithResultsDecides ==
    /\ Len(queries) <= 3
    /\ \A i \in 1..Len(queries) :
          /\ queries[i].site = <<"myntra.com", "ajio.com", "nykaafashion.com">>[i]
          /\ queries[i].q = "\"" \o payload.company_name \o "\" site:" \o queries[i].site
          /\ i < Len(queries) => ~HasResults(queries[i].out)
    /\ pc = "mkt_return" =>
         /\ Len(queries) >= 1
         /\ IF HasResults(queries[Len(queries)].out)
            THEN loc.marketplace_product_url = ProductOrFirst(queries[Len(queries)].out.items)
            ELSE Len(queries) = 3 /\ loc.marketplace_product_url = None

\* myntra.com was skipped and ajio.com decided by its first result, having no
\* link with a product token
C5_Witness ==
    /\ pc = "mkt_return" /\ Len(queries) = 2
    /\ Len(queries[2].out.items) = 2
    /\ \A i \in 1..2 : ~HasProductToken(queries[2].out.items[i].link)
    /\ loc.marketplace_product_url = queries[2].out.items[1].link
    /\ IsSet(loc.marketplace_product_url)

NonTargetDomains ==
    {"myntra.com", "ajio.com", "nykaafashion.com", "instagram.com", "facebook.com",
     "linkedin.com", "x.com", "twitter.com", "pinterest.com", "amazon.in",
     "amazon.com", "flipkart.com"}

EndsWith(s, suffix) ==
    Len(s) >= Len(suffix) /\ SubSeq(s, Len(s) - Len(suffix) + 1, Len(s)) = suffix

\* the host of a link: its network location, lower-cased
HostOf(link) == IF IsSet(link) THEN Lower(UrlSplit(link, "").netloc) ELSE ""

HostedOnNonTarget(item) ==
    \E d \in NonTargetDomains :
       HostOf(item.link) = d \/ EndsWith(HostOf(item.link), "." \o d)

HasFashionKeyword(item) ==
    \E i \in 1..Len(FASHION_KEYWORDS) :
       \/ IsSet(item.title) /\ Contains(Lower(item.title), FASHION_KEYWORDS[i])
       \/ IsSet(item.snippet) /\ Contains(Lower(item.snippet), FASHION_KEYWORDS[i])

FirstWhere(items, I) == items[Min(I)].link

\* C6: search_brand_website_url returns (1) the first result not hosted on a known
\* non-target domain whose title or snippet holds a fashion keyword, else (2) the
\* first result not hosted on a known non-target domain, else (3) the first
\* result; none if the query fails or returns no result.  So a result on a
\* non-target host is returned only when every result is on a non-target host.
C6_ThreeTierSelection ==
    pc = "web_return" =>
      /\ Len(queries) = 1
      /\ \E out \in {queries[1].out} :
         \E n \in {Len(queries[1].out.items)} :
           IF ~out.ok \/ n = 0 THEN loc.resolved_website_url = None
           ELSE \E tier1 \in {{i \in 1..n : ~HostedOnNonTarget(out.items[i])
                                             /\ HasFashionKeyword(out.items[i])}} :
                \E tier2 \in {{i \in 1..n : ~HostedOnNonTarget(out.items[i])}} :
                  loc.resolved_website_url =
                     IF tier1 /= {} THEN FirstWhere(out.items, tier1)
                     ELSE IF tier2 /= {} THEN FirstWhere(out.items, tier2)
                     ELSE out.items[1].link

(***************************************************************************)
(* Further properties of enrich_brand                                      *)
(***************************************************************************)
\* C11: when none of company_name, website_url and sku_url is set, enrich_brand
\* fetches nothing, queries nothing, and returns the placeholder image as
\* chosen_image_url and the placeholder product URL as chosen_product_url, with a
\* note saying that the inputs were not provided.
C11_EmptyRequestPlaceholder ==
    ~IsSet(payload.company_name) /\ ~IsSet(payload.website_url) /\ ~IsSet(payload.sku_url) =>
      /\ fetches = <<>> /\ queries = <<>>
      /\ raised = None
      /\ branch \in {"none", "empty"}
      /\ pc = "done" =>
           /\ response.returned
           /\ response.chosen_image_url = "https://picsum.photos/800/1200"
           /\ response.chosen_product_url = "https://example.com/dummy-product"
           /\ Contains(response.notes, "not provided")

\* a request with no field set has been answered
C11_Witness ==
    /\ Returned /\ branch = "empty"
    /\ payload.company_name = None /\ payload.website_url = None /\ payload.sku_url = None

\* what the marketplace resolver returned, read from the log of its queries
MarketplaceResolved ==
    IF \E i \in 1..Len(queries) : queries[i].fn = "marketplace" /\ HasResults(queries[i].out)
    THEN ProductOrFirst(queries[Len(queries)].out.items)
    ELSE None

\* C12: in the company-name branch the marketplace product is resolved, and fetched
\* when resolved, whether or not the website was resolved or yielded images; a
\* result with neither a marketplace hero nor a website hero has the resolved
\* website URL, if any, else the placeholder product URL as chosen_product_url,
\* and the placeholder image as chosen_image_url.
C12_CompanyBranchFallback ==
    pc = "done" /\ branch = "company" =>
      /\ Cardinality(QueriesOf("marketplace", "myntra.com")) = 1
      /\ IF IsSet(MarketplaceResolved)
         THEN \E i \in FetchesOf("marketplace") : fetches[i].url = MarketplaceResolved
         ELSE FetchesOf("marketplace") = {}
      /\ response.returned =>
           /\ response.marketplace_product_url
                = (IF IsSet(MarketplaceResolved) THEN MarketplaceResolved ELSE None)
           /\ response.marketplace_image_url = None /\ response.website_image_url = None =>
                /\ response.chosen_image_url = "https://picsum.photos/800/1200"
                /\ response.chosen_product_url =
                      IF IsSet(response.resolved_website_url)
                      THEN response.resolved_website_url
                      ELSE "https://example.com/dummy-product"

\* the website was not resolved, the marketplace product was resolved and fetched,
\* and no image was found
C12_Witness ==
    /\ Returned /\ branch = "company"
    /\ response.resolved_website_url = None
    /\ FetchesOf("website") = {} /\ FetchesOf("marketplace") /= {}
    /\ response.marketplace_image_url = None
    /\ response.chosen_product_url = "https://example.com/dummy-product"

\* a source of the branch yielded an image: a page fetched, from which the
\* extraction returned at least one URL
SomeSourceYieldedImage ==
    \E i \in 1..Len(fetches) :
       /\ fetches[i].out.ok
       /\ Len(extract_image_urls_from_html(fetches[i].out.html, fetches[i].url)) > 0

\* C13: every result enrich_brand returns has a chosen_image_url, a non-empty
\* candidate_image_urls whose first element is chosen_image_url, and has the
\* placeholder image as chosen_image_url only when no source used by the branch
\* yielded an image.
C13_ChosenImageInvariant ==
    Returned =>
      /\ response.chosen_image_url /= None
      /\ Len(response.candidate_image_urls) >= 1
      /\ response.chosen_image_url = response.candidate_image_urls[1]
      /\ response.chosen_image_url = "https://picsum.photos/800/1200"
           => ~SomeSourceYieldedImage

====
